---- MODULE Spec2Model ----
(***************************************************************************)
(* Roguelike core: Fighter hp/death (components/fighter.py), movement      *)
(* (actions.py), enemy batch and field of view (engine.py), and dungeon    *)
(* generation (procgen.py).                                                *)
(*                                                                         *)
(* Three specifications share the variables:                               *)
(*   Spec     the turn core on a small fixed map (hp writes, movement,     *)
(*            enemy batch, FOV update);                                    *)
(*   FovSpec  the player walking a map with sight-blocking walls, with     *)
(*            FOV updates in between;                                      *)
(*   GenSpec  generate_dungeon, stepping through its loop body and the     *)
(*            spawn loops of place_entities.                               *)
(***************************************************************************)
EXTENDS Integers, Sequences, FiniteSets, TLC

VARIABLES
    \* ---- GameMap
    width, height,        \* GameMap.width / GameMap.height
    tiles,                \* GameMap.tiles: cell -> tile name
    visible, explored,    \* GameMap.visible / GameMap.explored masks (sets of cells)
    \* ---- actors of the turn core
    pos,                  \* Entity.x, Entity.y
    hp, max_hp,           \* Fighter._hp, Fighter.max_hp
    ai,                   \* Actor.ai ("None" once cleared)
    name,                 \* Entity.name
    render,               \* Entity.char, Entity.color, Entity.render_order
    blocks_movement,      \* Entity.blocks_movement
    event_handler,        \* Engine.event_handler
    actors,               \* GameMap.actors, as the sequence the engine iterates
    pc,                   \* "idle" or inside handle_enemy_turns
    pending,              \* the entities handle_enemy_turns still has to visit
    acted,                \* how often each entity's ai.perform() ran in this batch
    deaths,               \* how often Fighter.die() ran for each entity
    rewritten,            \* the last step stored hp 0 on an entity whose AI was already cleared
    fovXY,                \* the player position the last update_fov computed from
    \* ---- generate_dungeon
    max_rooms, room_min_size, room_max_size,
    max_monsters_per_room, max_items_per_room,
    r,                    \* loop counter of generate_dungeon
    rooms,                \* accepted rooms, in order
    entities,             \* dungeon.entities: sequence of [kind, x, y]
    center_of_last_room,
    downstairs_location,
    skipped,              \* place_entities has skipped a sample on an occupied cell
    gpc,                  \* position inside generate_dungeon's loop body
    new_room,             \* the room of the current iteration
    number_of_monsters,   \* passes left in the monster loop of place_entities
    number_of_items       \* passes left in the item loop of place_entities

mapVars  == <<width, height, tiles, visible, explored>>
coreVars == <<pos, hp, max_hp, ai, name, render, blocks_movement, event_handler,
              actors, pc, pending, acted, deaths, rewritten, fovXY>>
genVars  == <<max_rooms, room_min_size, room_max_size,
              max_monsters_per_room, max_items_per_room, r, rooms,
              entities, center_of_last_room, downstairs_location, skipped,
              gpc, new_room, number_of_monsters, number_of_items>>
vars     == <<mapVars, coreVars, genVars>>

Max(a, b) == IF a >= b THEN a ELSE b
Min(a, b) == IF a <= b THEN a ELSE b
Abs(a)    == IF a >= 0 THEN a ELSE -a
Sign(a)   == IF a > 0 THEN 1 ELSE IF a < 0 THEN -1 ELSE 0

(***************************************************************************)
(* Tiles and the grid                                                      *)
(***************************************************************************)
Wall       == "wall"
Floor      == "floor"
DownStairs == "down_stairs"

Walkable(t)    == t \in {Floor, DownStairs}
Transparent(t) == t \in {Floor, DownStairs}

Grid(w, h) == (0 .. w - 1) \X (0 .. h - 1)

in_bounds(x, y) == 0 <= x /\ x < width /\ 0 <= y /\ y < height

\* A map given as rows of tiles, top row first: layout[y + 1][x + 1].
TilesOf(layout) ==
    [c \in Grid(Len(layout[1]), Len(layout)) |-> layout[c[2] + 1][c[1] + 1]]

(***************************************************************************)
(* Entities of the turn core                                               *)
(***************************************************************************)
Player   == "player"
Entities == {"player", "orc", "troll"}
None     == "None"

OrigName  == [e \in Entities |->
                 CASE e = "player" -> "Player" [] e = "orc" -> "Orc" [] OTHER -> "Troll"]
OrigChar  == [e \in Entities |->
                 CASE e = "player" -> "@" [] e = "orc" -> "o" [] OTHER -> "T"]
OrigColor == [e \in Entities |->
                 CASE e = "player" -> <<255, 255, 255>>
                   [] e = "orc"    -> <<63, 127, 63>>
                   [] OTHER        -> <<0, 127, 0>>]
Power     == [e \in Entities |->
                 CASE e = "player" -> 5 [] e = "orc" -> 3 [] OTHER -> 4]
Defense   == [e \in Entities |->
                 CASE e = "player" -> 2 [] e = "orc" -> 0 [] OTHER -> 1]

MainGameEventHandler == "MainGameEventHandler"
GameOverEventHandler == "GameOverEventHandler"

\* Bounds of the turn core.
MaxHp == 2
HpWrites == -1 .. MaxHp + 1
Deltas == {-1, 0, 1}

(***************************************************************************)
(* Fighter (components/fighter.py)                                         *)
(***************************************************************************)
ClampNoFloor(value, mx) == Min(value, mx)
\* self._hp = max(0, min(value, self.max_hp))
Clamp(value, mx) == Max(0, Min(value, mx))

ShouldDieIgnoringAI(e, newhp) == newhp = 0
\* if self._hp == 0 and self.entity.ai
ShouldDie(e, newhp) == newhp = 0 /\ ai[e] # None

AnyDeathIsPlayerDeath(e) == TRUE
\* if self.engine.player is self.entity
IsPlayerDeath(e) == e = Player

Corpse == [char |-> "%", color |-> <<191, 0, 0>>, render_order |-> "CORPSE"]

\* Fighter.die()
Die(e) ==
    /\ event_handler' = IF IsPlayerDeath(e) THEN GameOverEventHandler ELSE event_handler
    /\ render' = [render EXCEPT ![e] = Corpse]
    /\ blocks_movement' = [blocks_movement EXCEPT ![e] = FALSE]
    /\ ai' = [ai EXCEPT ![e] = None]
    /\ name' = [name EXCEPT ![e] = "Remains of " \o name[e]]
    /\ deaths' = [deaths EXCEPT ![e] = @ + 1]

\* Fighter.hp setter
SetHp(e, value) ==
    LET newhp == Clamp(value, max_hp[e]) IN
    /\ hp' = [hp EXCEPT ![e] = newhp]
    /\ rewritten' = (newhp = 0 /\ ai[e] = None)
    /\ IF ShouldDie(e, newhp)
       THEN Die(e)
       ELSE UNCHANGED <<event_handler, render, blocks_movement, ai, name, deaths>>

(***************************************************************************)
(* MovementAction (actions.py)                                             *)
(***************************************************************************)
MovementIgnoringTiles(p, dx, dy) ==
    LET dest_x == p[1] + dx
        dest_y == p[2] + dy
    IN IF ~in_bounds(dest_x, dest_y) THEN p ELSE <<dest_x, dest_y>>

\* MovementAction.perform: the actor's position afterwards
MovementResult(p, dx, dy) ==
    LET dest_x == p[1] + dx
        dest_y == p[2] + dy
    IN IF ~in_bounds(dest_x, dest_y) THEN p
       ELSE IF ~Walkable(tiles[<<dest_x, dest_y>>]) THEN p
       ELSE <<p[1] + dx, p[2] + dy>>

MovementAction(e, dx, dy) ==
    pos' = [pos EXCEPT ![e] = MovementResult(pos[e], dx, dy)]

(***************************************************************************)
(* AI action of one entity.  The AI classes are not part of the sources;   *)
(* an AI turn is a wait, a MovementAction, or a melee hit that writes the  *)
(* target's hp through the Fighter.hp setter.                              *)
(***************************************************************************)
Damage(attacker, target) == Max(0, Power[attacker] - Defense[target])

AIPerform(e) ==
    \/ /\ UNCHANGED <<pos, hp, event_handler, render, blocks_movement, ai, name, deaths>>
       /\ rewritten' = FALSE
    \/ /\ \E dx \in Deltas, dy \in Deltas : MovementAction(e, dx, dy)
       /\ UNCHANGED <<hp, event_handler, render, blocks_movement, ai, name, deaths>>
       /\ rewritten' = FALSE
    \/ /\ \E t \in Entities \ {e} : SetHp(t, hp[t] - Damage(e, t))
       /\ UNCHANGED pos

(***************************************************************************)
(* Engine (engine.py)                                                      *)
(***************************************************************************)
OrdersOf(S) ==
    {s \in [1 .. Cardinality(S) -> S] : \A i, j \in DOMAIN s : i # j => s[i] # s[j]}

IterationWithDuplicates(collection, p) == {SelectSeq(collection, LAMBDA a : a # p)}
\* for entity in set(self.game_map.actors) - {self.player}: the orders a set may
\* be iterated in
IterationOrders(collection, p) ==
    OrdersOf({collection[i] : i \in DOMAIN collection} \ {p})

\* handle_enemy_turns, entry: the set is built once, before the loop
EnemyTurnsBegin ==
    /\ pc = "idle"
    /\ pending' \in IterationOrders(actors, Player)
    /\ pc' = "enemy_turns"
    /\ acted' = [e \in Entities |-> 0]
    /\ rewritten' = FALSE
    /\ UNCHANGED <<mapVars, genVars, pos, hp, max_hp, ai, name, render,
                   blocks_movement, event_handler, actors, deaths, fovXY>>

\* handle_enemy_turns, one loop iteration
EnemyTurnsStep ==
    /\ pc = "enemy_turns"
    /\ pending # <<>>
    /\ pending' = Tail(pending)
    /\ LET entity == Head(pending) IN
         IF ai[entity] # None
         THEN /\ acted' = [acted EXCEPT ![entity] = @ + 1]
              /\ AIPerform(entity)
         ELSE /\ UNCHANGED <<acted, pos, hp, event_handler, render, blocks_movement,
                             ai, name, deaths>>
              /\ rewritten' = FALSE
    /\ UNCHANGED <<mapVars, genVars, max_hp, actors, pc, fovXY>>

\* handle_enemy_turns, return
EnemyTurnsEnd ==
    /\ pc = "enemy_turns"
    /\ pending = <<>>
    /\ pc' = "idle"
    /\ acted' = [e \in Entities |-> 0]
    /\ rewritten' = FALSE
    /\ UNCHANGED <<mapVars, genVars, pos, hp, max_hp, ai, name, render,
                   blocks_movement, event_handler, actors, pending, deaths, fovXY>>

\* tcod.los.bresenham: the cells of the line from (x, y) to (x2, y2), both ends included
RECURSIVE BresenhamWalk(_, _, _, _, _, _, _)
BresenhamWalk(x, y, x2, y2, dx, dy, err) ==
    IF x = x2 /\ y = y2
    THEN << <<x, y>> >>
    ELSE LET e2    == 2 * err
             stepx == e2 > -dy
             stepy == e2 < dx
             nx    == IF stepx THEN x + Sign(x2 - x) ELSE x
             ny    == IF stepy THEN y + Sign(y2 - y) ELSE y
             nerr  == err - (IF stepx THEN dy ELSE 0) + (IF stepy THEN dx ELSE 0)
         IN << <<x, y>> >> \o BresenhamWalk(nx, ny, x2, y2, dx, dy, nerr)

Bresenham(a, b) ==
    BresenhamWalk(a[1], a[2], b[1], b[2], Abs(b[1] - a[1]), Abs(b[2] - a[2]),
                  Abs(b[1] - a[1]) - Abs(b[2] - a[2]))

FovRadius == 8

\* tcod.map.compute_fov(transparency, xy, radius): a cell within the radius is
\* visible when every cell strictly between the viewpoint and it is transparent
\* (opaque cells are lit themselves).
ComputeFov(xy, radius) ==
    {c \in Grid(width, height) :
        /\ (c[1] - xy[1]) * (c[1] - xy[1]) + (c[2] - xy[2]) * (c[2] - xy[2])
              <= radius * radius
        /\ LET line == Bresenham(xy, c) IN
             \A i \in 2 .. Len(line) - 1 : Transparent(tiles[line[i]])}

MergedVisible(old, computed) == old \cup computed
\* self.game_map.visible[:] = compute_fov(...)
NewVisible(old, computed) == computed

\* Engine.update_fov
UpdateFov ==
    /\ pc = "idle"
    /\ visible' = NewVisible(visible, ComputeFov(pos[Player], FovRadius))
    /\ explored' = explored \cup visible'
    /\ fovXY' = pos[Player]
    /\ rewritten' = FALSE
    /\ UNCHANGED <<width, height, tiles, genVars, pos, hp, max_hp, ai, name, render,
                   blocks_movement, event_handler, actors, pc, pending, acted, deaths>>

\* A caller outside the batch assigns fighter.hp (damage, healing).
WriteHp ==
    /\ pc = "idle"
    /\ \E e \in Entities, value \in HpWrites : SetHp(e, value)
    /\ UNCHANGED <<mapVars, genVars, pos, max_hp, actors, pc, pending, acted, fovXY>>

\* A caller outside the batch performs a MovementAction for an entity.
Move ==
    /\ pc = "idle"
    /\ \E e \in Entities, dx \in Deltas, dy \in Deltas : MovementAction(e, dx, dy)
    /\ rewritten' = FALSE
    /\ UNCHANGED <<mapVars, genVars, hp, max_hp, ai, name, render, blocks_movement,
                   event_handler, actors, pc, pending, acted, deaths, fovXY>>

(***************************************************************************)
(* The turn core on a small map                                            *)
(***************************************************************************)
CoreLayout == << <<Floor, Floor>>,
                 <<Floor, Wall>> >>

\* The actor collection lists the orc twice.
ActorLists == { <<"orc", "player", "troll", "orc">> }

GenIdle ==
    /\ max_rooms = 0 /\ room_min_size = 0 /\ room_max_size = 0
    /\ max_monsters_per_room = 0 /\ max_items_per_room = 0
    /\ r = 0 /\ rooms = <<>> /\ entities = <<>>
    /\ center_of_last_room = <<0, 0>> /\ downstairs_location = None
    /\ skipped = FALSE
    /\ gpc = "attempt" /\ new_room = None
    /\ number_of_monsters = 0 /\ number_of_items = 0

\* Engine.__init__ and the Actor / Fighter constructors
CoreInit(layout, start) ==
    /\ width = Len(layout[1]) /\ height = Len(layout)
    /\ tiles = TilesOf(layout)
    /\ visible = {} /\ explored = {}
    /\ pos = start
    /\ \E m \in {0, MaxHp} :
          max_hp = [e \in Entities |-> IF e = "troll" THEN m ELSE MaxHp]
    /\ hp = max_hp
    /\ ai = [e \in Entities |-> "HostileEnemy"]
    /\ name = OrigName
    /\ render = [e \in Entities |->
                    [char |-> OrigChar[e], color |-> OrigColor[e], render_order |-> "ACTOR"]]
    /\ blocks_movement = [e \in Entities |-> TRUE]
    /\ event_handler = MainGameEventHandler
    /\ actors \in ActorLists
    /\ pc = "idle" /\ pending = <<>>
    /\ acted = [e \in Entities |-> 0]
    /\ deaths = [e \in Entities |-> 0]
    /\ rewritten = FALSE
    /\ fovXY = None

Init ==
    /\ CoreInit(CoreLayout, [e \in Entities |-> IF e = "player" THEN <<0, 0>> ELSE <<1, 0>>])
    /\ GenIdle

Next ==
    \/ WriteHp
    \/ Move
    \/ EnemyTurnsBegin
    \/ EnemyTurnsStep
    \/ EnemyTurnsEnd
    \/ UpdateFov

Spec == Init /\ [][Next]_vars

(***************************************************************************)
(* The player walking a map whose walls block sight                        *)
(***************************************************************************)
FovLayout == << <<Floor, Floor, Wall,  Floor>>,
                <<Floor, Wall,  Floor, Floor>>,
                <<Floor, Floor, Floor, Floor>> >>

\* The input layer performs a MovementAction for the player.
PlayerMove ==
    /\ pc = "idle"
    /\ \E dx \in Deltas, dy \in Deltas : MovementAction(Player, dx, dy)
    /\ rewritten' = FALSE
    /\ UNCHANGED <<mapVars, genVars, hp, max_hp, ai, name, render, blocks_movement,
                   event_handler, actors, pc, pending, acted, deaths, fovXY>>

FovInit ==
    /\ CoreInit(FovLayout, [e \in Entities |-> <<0, 0>>])
    /\ GenIdle

FovNext ==
    \/ PlayerMove
    \/ UpdateFov

FovSpec == FovInit /\ [][FovNext]_vars

(***************************************************************************)
(* Dungeon generation (procgen.py)                                         *)
(***************************************************************************)
\* Bounds of the generator: the attempts, and the parameter values tried.
MaxRooms == 3
\* map_width, map_height, room_min_size, room_max_size, max_monsters_per_room,
\* max_items_per_room: a map that holds two rooms of mixed sizes, a long map that
\* holds three small rooms, and a map that holds a single room of size 5
Parameters ==
    { [w |-> 7, h |-> 4, smin |-> 2, smax |-> 3, monsters |-> 1, items |-> 1],
      [w |-> 9, h |-> 4, smin |-> 2, smax |-> 2, monsters |-> 2, items |-> 1],
      [w |-> 7, h |-> 7, smin |-> 5, smax |-> 5, monsters |-> 2, items |-> 0] }
\* random.random() in tenths
MonsterRolls == {7, 8}
ItemRolls    == {6, 7, 8, 9}

\* RectangularRoom.__init__
RectangularRoom(x, y, w, h) == [x1 |-> x, y1 |-> y, x2 |-> x + w, y2 |-> y + h]

\* RectangularRoom.center
Center(room) == <<(room.x1 + room.x2) \div 2, (room.y1 + room.y2) \div 2>>

\* RectangularRoom.inner: slice(x1 + 1, x2), slice(y1 + 1, y2)
Inner(room) == (room.x1 + 1 .. room.x2 - 1) \X (room.y1 + 1 .. room.y2 - 1)

\* RectangularRoom.intersects
Intersects(a, b) ==
    a.x1 <= b.x2 /\ a.x2 >= b.x1 /\ a.y1 <= b.y2 /\ a.y2 >= b.y1

NeverOccupied(ents, x, y) == FALSE
\* any(entity.x == x and entity.y == y for entity in dungeon.entities)
Occupied(ents, x, y) == \E i \in DOMAIN ents : ents[i].x = x /\ ents[i].y = y

\* if random.random() < monster_chance (0.8): orc, else troll
MonsterFor(roll) == IF roll < 8 THEN "orc" ELSE "troll"

\* the item_chance ladder of place_entities
ItemFor(roll) ==
    IF roll < 7 THEN "health_potion"
    ELSE IF roll < 8 THEN "fireball_scroll"
    ELSE IF roll < 9 THEN "confusion_scroll"
    ELSE "lightning_scroll"

\* entity_factories.<kind>.spawn(dungeon, x, y)
Spawn(ents, kind, x, y) == Append(ents, [kind |-> kind, x |-> x, y |-> y])

\* tunnel_between: the cells of the L-shaped corridor, in order
TunnelBetween(start, end, horizontal_first) ==
    LET corner == IF horizontal_first THEN <<end[1], start[2]>> ELSE <<start[1], end[2]>>
    IN Bresenham(start, corner) \o Bresenham(corner, end)

SeqRange(s) == {s[i] : i \in DOMAIN s}

\* The rooms one attempt can sample: sizes in [room_min_size, room_max_size],
\* x in [0, width - room_width - 1], y in [0, height - room_height - 1].
Candidates ==
    {RectangularRoom(q[1], q[2], q[3], q[4]) :
        q \in {q \in (0 .. width - 1) \X (0 .. height - 1)
                      \X (room_min_size .. room_max_size)
                      \X (room_min_size .. room_max_size) :
                 q[1] <= width - q[3] - 1 /\ q[2] <= height - q[4] - 1}}

\* generate_dungeon, a loop iteration whose room intersects an accepted one:
\* `continue`
RoomRejected(room) ==
    /\ r' = r + 1
    /\ UNCHANGED <<mapVars, coreVars, max_rooms, room_min_size, room_max_size,
                   max_monsters_per_room, max_items_per_room, rooms, entities, center_of_last_room,
                   downstairs_location, skipped, gpc, new_room,
                   number_of_monsters, number_of_items>>

\* generate_dungeon, a loop iteration that accepts its room: carve the interior,
\* place the player or dig the tunnel, and enter place_entities
RoomAccepted(room) ==
    /\ \E horizontal_first \in BOOLEAN :
          LET first  == Len(rooms) = 0
              tunnel == IF first THEN {}
                        ELSE SeqRange(TunnelBetween(Center(rooms[Len(rooms)]),
                                                    Center(room), horizontal_first))
          IN /\ tiles' = [c \in DOMAIN tiles |->
                            IF c \in Inner(room) \cup tunnel THEN Floor ELSE tiles[c]]
             /\ entities' = IF first
                            THEN [entities EXCEPT ![1].x = Center(room)[1],
                                                  ![1].y = Center(room)[2]]
                            ELSE entities
             /\ center_of_last_room' = IF first THEN center_of_last_room
                                       ELSE Center(room)
    /\ new_room' = room
    /\ number_of_monsters' \in 0 .. max_monsters_per_room
    /\ number_of_items' \in 0 .. max_items_per_room
    /\ gpc' = "place_entities"
    /\ UNCHANGED <<width, height, visible, explored, coreVars, max_rooms,
                   room_min_size, room_max_size,
                   max_monsters_per_room, max_items_per_room, r, rooms,
                   downstairs_location, skipped>>

\* generate_dungeon, the start of a loop iteration: sample a room and test it
\* against the rooms appended so far
RoomAttempt ==
    /\ gpc = "attempt"
    /\ r < max_rooms
    /\ \E room \in Candidates :
          IF \E i \in DOMAIN rooms : Intersects(room, rooms[i])
          THEN RoomRejected(room)
          ELSE RoomAccepted(room)

\* place_entities, one pass of the monster loop
SpawnMonster ==
    /\ gpc = "place_entities"
    /\ number_of_monsters > 0
    /\ number_of_monsters' = number_of_monsters - 1
    /\ \E x \in new_room.x1 + 1 .. new_room.x2 - 1,
          y \in new_room.y1 + 1 .. new_room.y2 - 1 :
          IF ~Occupied(entities, x, y)
          THEN /\ \E roll \in MonsterRolls :
                     entities' = Spawn(entities, MonsterFor(roll), x, y)
               /\ UNCHANGED skipped
          ELSE /\ skipped' = TRUE
               /\ UNCHANGED entities
    /\ UNCHANGED <<mapVars, coreVars, max_rooms, room_min_size, room_max_size,
                   max_monsters_per_room, max_items_per_room, r, rooms, center_of_last_room,
                   downstairs_location, gpc, new_room, number_of_items>>

\* place_entities, one pass of the item loop
SpawnItem ==
    /\ gpc = "place_entities"
    /\ number_of_monsters = 0
    /\ number_of_items > 0
    /\ number_of_items' = number_of_items - 1
    /\ \E x \in new_room.x1 + 1 .. new_room.x2 - 1,
          y \in new_room.y1 + 1 .. new_room.y2 - 1 :
          IF ~Occupied(entities, x, y)
          THEN /\ \E roll \in ItemRolls :
                     entities' = Spawn(entities, ItemFor(roll), x, y)
               /\ UNCHANGED skipped
          ELSE /\ skipped' = TRUE
               /\ UNCHANGED entities
    /\ UNCHANGED <<mapVars, coreVars, max_rooms, room_min_size, room_max_size,
                   max_monsters_per_room, max_items_per_room, r, rooms, center_of_last_room,
                   downstairs_location, gpc, new_room, number_of_monsters>>

\* generate_dungeon, the end of an accepting iteration. The statement
\* dungeon.tiles[center_of_last_room] = tile_types.down_stairs evaluates its
\* right-hand side first, and tile_types.py defines floor and wall only: the
\* statement raises AttributeError, nothing is written, the assignment of
\* downstairs_location and rooms.append(new_room) are not reached, and the
\* exception leaves generate_dungeon.
RoomFinished ==
    /\ gpc = "place_entities"
    /\ number_of_monsters = 0
    /\ number_of_items = 0
    /\ gpc' = "raised"
    /\ UNCHANGED <<mapVars, coreVars, max_rooms, room_min_size, room_max_size,
                   max_monsters_per_room, max_items_per_room, r, rooms, entities,
                   center_of_last_room, downstairs_location, skipped, new_room,
                   number_of_monsters, number_of_items>>

CoreIdle ==
    /\ pos = [e \in Entities |-> <<0, 0>>]
    /\ max_hp = [e \in Entities |-> MaxHp] /\ hp = max_hp
    /\ ai = [e \in Entities |-> "HostileEnemy"]
    /\ name = OrigName
    /\ render = [e \in Entities |->
                    [char |-> OrigChar[e], color |-> OrigColor[e], render_order |-> "ACTOR"]]
    /\ blocks_movement = [e \in Entities |-> TRUE]
    /\ event_handler = MainGameEventHandler
    /\ actors = <<"player">>
    /\ pc = "idle" /\ pending = <<>>
    /\ acted = [e \in Entities |-> 0]
    /\ deaths = [e \in Entities |-> 0]
    /\ rewritten = FALSE
    /\ fovXY = None

\* generate_dungeon up to the loop: a map of walls holding the player
GenInit ==
    /\ \E p \in Parameters :
          /\ width = p.w /\ height = p.h
          /\ tiles = [c \in Grid(p.w, p.h) |-> Wall]
          /\ room_min_size = p.smin /\ room_max_size = p.smax
          /\ max_monsters_per_room = p.monsters
          /\ max_items_per_room = p.items
    /\ visible = {} /\ explored = {}
    /\ CoreIdle
    /\ max_rooms \in 1 .. MaxRooms
    /\ r = 0
    /\ rooms = <<>>
    /\ entities = << [kind |-> "player", x |-> 0, y |-> 0] >>
    /\ center_of_last_room = <<0, 0>>
    /\ downstairs_location = None
    /\ skipped = FALSE
    /\ gpc = "attempt"
    /\ new_room = None
    /\ number_of_monsters = 0
    /\ number_of_items = 0

GenNext ==
    \/ RoomAttempt
    \/ SpawnMonster
    \/ SpawnItem
    \/ RoomFinished

GenSpec == GenInit /\ [][GenNext]_vars

\* generate_dungeon has returned
Returned == max_rooms > 0 /\ r = max_rooms /\ gpc = "attempt"

\* generate_dungeon was left by the AttributeError of its stairs statement
Raised == gpc = "raised"

(***************************************************************************)
(* Properties of the turn core                                             *)
(***************************************************************************)

\* C1: hp stays within [0, max_hp] whatever value is written: in every reachable
\* state each fighter's hp is in range, and for each fighter the setter's clamp
\* stores 0 for a value below 0 and max_hp for a value above max_hp.
C1_HpWithinBounds ==
    \A e \in Entities :
        /\ max_hp[e] >= 0
        /\ 0 <= hp[e] /\ hp[e] <= max_hp[e]
        /\ \A value \in HpWrites :
              /\ value < 0 => Clamp(value, max_hp[e]) = 0
              /\ value > max_hp[e] => Clamp(value, max_hp[e]) = max_hp[e]
              /\ (0 <= value /\ value <= max_hp[e]) => Clamp(value, max_hp[e]) = value

\* a fighter was written down to 0 and another one up to its maximum again
C1_Witness ==
    \E e, f \in Entities :
        /\ e # f
        /\ max_hp[e] > 0 /\ hp[e] = 0 /\ deaths[e] = 1
        /\ max_hp[f] > 0 /\ hp[f] = max_hp[f] /\ deaths[f] = 1

DeadFieldsKept(e) ==
    /\ ai'[e] = None
    /\ name'[e] = name[e]
    /\ render'[e] = render[e]
    /\ blocks_movement'[e] = blocks_movement[e]
    /\ deaths'[e] = deaths[e]
    /\ (e = Player => event_handler' = event_handler)

\* C2: death fires at most once per entity.  die() never ran twice for an entity
\* and a dead entity is named "Remains of <original name>" with one prefix; the
\* write that brings a live entity's hp to 0 runs die(); and a step that finds an
\* entity's AI cleared changes none of its name, render fields, blocking flag or
\* the interaction mode it switched.
C2_DeathFiresOnce ==
    /\ [](\A e \in Entities :
             /\ deaths[e] <= 1
             /\ (ai[e] = None <=> deaths[e] = 1)
             /\ (ai[e] = None => name[e] = "Remains of " \o OrigName[e])
             /\ (ai[e] # None => name[e] = OrigName[e]))
    /\ [][\A e \in Entities :
             /\ (ai[e] # None /\ hp[e] > 0 /\ hp'[e] = 0)
                   => (deaths'[e] = deaths[e] + 1 /\ ai'[e] = None)
             /\ (ai[e] = None => DeadFieldsKept(e))]_vars

\* an entity that is already dead has just received another lethal hp write
C2_Witness ==
    /\ rewritten
    /\ \E e \in Entities :
          /\ ai[e] = None /\ hp[e] = 0 /\ deaths[e] = 1
          /\ name[e] = "Remains of " \o OrigName[e]

DiesNow(e) == ai[e] # None /\ ai'[e] = None

\* C3: the interaction mode changes only by the player's death, and then to the
\* game-over handler; a non-player death leaves it unchanged and changes nothing
\* but the dying entity (AI cleared, not blocking, corpse render fields,
\* renamed); hp writes without death, movement, the enemy batch and FOV updates
\* leave it unchanged.
C3_ModeChangesOnlyOnPlayerDeath ==
    [][/\ (event_handler' # event_handler)
             => (DiesNow(Player) /\ event_handler' = GameOverEventHandler)
       /\ DiesNow(Player) => event_handler' = GameOverEventHandler
       /\ \A e \in Entities \ {Player} :
             DiesNow(e) =>
                 /\ event_handler' = event_handler
                 /\ ai'[e] = None
                 /\ blocks_movement'[e] = FALSE
                 /\ render'[e] = Corpse
                 /\ name'[e] = "Remains of " \o name[e]
                 /\ pos' = pos /\ max_hp' = max_hp
                 /\ UNCHANGED <<mapVars, actors, fovXY>>
                 /\ \A f \in Entities \ {e} :
                       /\ hp'[f] = hp[f] /\ ai'[f] = ai[f] /\ name'[f] = name[f]
                       /\ render'[f] = render[f]
                       /\ blocks_movement'[f] = blocks_movement[f]]_vars

\* a monster has died while the player lives on in the main mode
C3_Witness ==
    /\ ai["orc"] = None /\ render["orc"] = Corpse
    /\ ai[Player] # None
    /\ event_handler = MainGameEventHandler

\* C4: a movement whose destination is out of bounds or not walkable leaves the
\* position as it is, any other movement ends exactly on the destination; so
\* every actor stands on an in-bounds walkable cell at all times.
C4_MovementStaysOnWalkable ==
    \A e \in Entities :
        /\ in_bounds(pos[e][1], pos[e][2])
        /\ Walkable(tiles[pos[e]])
        /\ \A dx \in Deltas, dy \in Deltas :
              LET dest == <<pos[e][1] + dx, pos[e][2] + dy>>
                  ok   == dest \in DOMAIN tiles /\ Walkable(tiles[dest])
              IN MovementResult(pos[e], dx, dy) = IF ok THEN dest ELSE pos[e]

\* two actors have moved off their start cells, next to the wall and the map edge
C4_Witness ==
    /\ pos["orc"] = <<0, 1>>
    /\ pos[Player] = <<1, 0>>
    /\ ~Walkable(tiles[<<1, 1>>])

\* C9: in one call of handle_enemy_turns no entity acts twice and the player
\* never acts; an entity's action runs only when it has an AI at the moment it is
\* reached, and then it runs; when the loop is through, every non-player entity
\* of the actor collection that has an AI has acted exactly once.
C9_EachEnemyActsOnce ==
    /\ [](\A e \in Entities : acted[e] <= 1 /\ acted[Player] = 0)
    /\ []((pc = "enemy_turns" /\ pending = <<>>) =>
             \A i \in DOMAIN actors :
                 (actors[i] # Player /\ ai[actors[i]] # None) => acted[actors[i]] = 1)
    /\ [][\A e \in Entities :
             /\ acted'[e] > acted[e] => (ai[e] # None /\ acted'[e] = acted[e] + 1)
             /\ (pc = "enemy_turns" /\ pending # <<>> /\ Head(pending) = e)
                   => acted'[e] = acted[e] + (IF ai[e] # None THEN 1 ELSE 0)]_vars

\* the loop is through: the orc, listed twice, acted once; the troll was reached
\* with its AI cleared and did not act
C9_Witness ==
    /\ pc = "enemy_turns" /\ pending = <<>>
    /\ Cardinality({i \in DOMAIN actors : actors[i] = "orc"}) = 2
    /\ acted["orc"] = 1
    /\ ai["troll"] = None /\ acted["troll"] = 0
    /\ acted[Player] = 0

(***************************************************************************)
(* Properties of the generated dungeon                                     *)
(***************************************************************************)
PlayerCell == <<entities[1].x, entities[1].y>>

\* floor cells outside every accepted room's interior
CorridorCells ==
    {c \in DOMAIN tiles :
        tiles[c] = Floor /\ \A i \in DOMAIN rooms : c \notin Inner(rooms[i])}

\* C7: generate_dungeon returns a map (the call is not left by an exception),
\* and when it returns, downstairs_location is the center of the last accepted
\* room and that cell holds the down-stairs tile; with a single accepted room
\* there are no corridor cells and the player and the stairs are both on that
\* room's center.
C7_StairsAtLastRoomCenter ==
    /\ ~Raised
    /\ Returned =>
          /\ rooms # <<>>
          /\ downstairs_location = Center(rooms[Len(rooms)])
          /\ tiles[Center(rooms[Len(rooms)])] = DownStairs
          /\ (Len(rooms) = 1 =>
                 /\ CorridorCells = {}
                 /\ PlayerCell = Center(rooms[1])
                 /\ downstairs_location = Center(rooms[1]))

\* the rooms accepted so far: those appended, and the room of the iteration
\* under way
RoomsSoFar == SeqRange(rooms) \cup (IF gpc = "attempt" THEN {} ELSE {new_room})

InRoom(room, kinds) ==
    {i \in DOMAIN entities :
        entities[i].kind \in kinds /\ <<entities[i].x, entities[i].y>> \in Inner(room)}

Monsters == {"orc", "troll"}
Items    == {"health_potion", "fireball_scroll", "confusion_scroll", "lightning_scroll"}

\* C10: no two entities, the player included, share a cell; every spawned
\* entity lies in the interior of a room, and a room holds at most
\* max_monsters_per_room monsters and max_items_per_room items; an entity is
\* appended only on a cell no entity holds, inside the current room, and a
\* skipped sample uses up its pass of the loop without a spawn.
C10_SpawnsRespectOccupancy ==
    /\ [](/\ \A i, j \in DOMAIN entities :
                i # j => <<entities[i].x, entities[i].y>> # <<entities[j].x, entities[j].y>>
          /\ \A i \in DOMAIN entities :
                i # 1 => /\ entities[i].kind \in Monsters \cup Items
                         /\ \E room \in RoomsSoFar :
                               <<entities[i].x, entities[i].y>> \in Inner(room)
          /\ \A room \in RoomsSoFar :
                /\ Cardinality(InRoom(room, Monsters)) <= max_monsters_per_room
                /\ Cardinality(InRoom(room, Items)) <= max_items_per_room)
    /\ [][/\ Len(entities') > Len(entities) =>
                /\ Len(entities') = Len(entities) + 1
                /\ SubSeq(entities', 1, Len(entities)) = entities
                /\ LET e == entities'[Len(entities')] IN
                     /\ ~\E i \in DOMAIN entities :
                            entities[i].x = e.x /\ entities[i].y = e.y
                     /\ <<e.x, e.y>> \in Inner(new_room)
          /\ (~skipped /\ skipped') =>
                /\ entities' = entities
                /\ number_of_monsters' + number_of_items'
                      = number_of_monsters + number_of_items - 1]_vars

\* place_entities has finished a room in which the one monster asked for was
\* spawned and the sample of the one item fell on a cell already held and was
\* skipped
C10_Witness ==
    /\ gpc = "place_entities"
    /\ number_of_monsters = 0 /\ number_of_items = 0
    /\ max_monsters_per_room = 1 /\ max_items_per_room = 1
    /\ skipped
    /\ Len(entities) = 2
    /\ Cardinality(InRoom(new_room, Monsters)) = 1
    /\ Cardinality(InRoom(new_room, Items)) = 0

StairsCells == {c \in DOMAIN tiles : tiles[c] = DownStairs}

\* C11: generate_dungeon writes the down-stairs tile once, at the recorded final
\* center, and returns (the call is not left by an exception): no cell outside
\* the interiors of the accepted rooms ever holds a down-stairs tile, and when
\* generate_dungeon returns the only cell holding one is downstairs_location.
C11_OneStairsInsideRooms ==
    /\ ~Raised
    /\ \A c \in StairsCells : \E room \in RoomsSoFar : c \in Inner(room)
    /\ Returned => StairsCells = {downstairs_location}

(***************************************************************************)
(* Properties of the field of view                                         *)
(***************************************************************************)

====
